---- MODULE Spec2Model ----
(***************************************************************************)
(* Fleet Feast simulation engine: the tick loop (game_loop), the action    *)
(* pipeline (process_action over the Redis list used as a queue), the      *)
(* truck state machine and the decision loop (agent_decision_loop) as the  *)
(* producer of action messages.                                            *)
(*                                                                         *)
(* Numbers.  Times are integer minutes.  The float fields are kept in      *)
(* fixed point: sales_accummulator and depletion_rate in halves of a unit, *)
(* base_demand in tenths, demand in twentieths (so that demand divided by  *)
(* base_demand is a number of halves), total_revenue in whole currency     *)
(* units.  Optional[...] fields are sequences of length at most one:       *)
(* <<>> is None.                                                           *)
(***************************************************************************)
EXTENDS Integers, Sequences, FiniteSets, TLC

VARIABLES
    store,            \* the state blob under config.game_state_key
    queue,            \* the Redis list config.pending_actions_queue, head first
    tick_pc,          \* game_loop: position inside one iteration of `while True`
    state,            \* game_loop: the local `state` of the running tick
    loaded_time,      \* game_loop: current_time of the blob the tick loaded
    pending,          \* game_loop: dequeue attempts left of pending_actions_length
    log,              \* game_loop: the last event the tick logged
    ticks,            \* number of tick iterations started
    restocking_cost,  \* Truck.restocking_cost (configuration, never changes)
    scope,            \* what this run explores: ticks, enqueue calls, tool calls, demand levels
    agent_pc,         \* agent_decision_loop: position inside one cycle
    agent_time,       \* agent_decision_loop: current_time of its state snapshot
    iteration_count,  \* agent_decision_loop: iteration_count of the cycle
    enqueued,         \* number of enqueue calls completed so far
    exists,           \* whether the key config.game_state_key is in the store
    published,        \* the tick notifications published so far, oldest first
    taken,            \* the messages (by seq) the running tick has dequeued
    settled,          \* the messages (by seq) dequeued by a tick that persisted
    built,            \* a State under construction: zone_ids, costs, shortest_paths
    is_peak           \* a call of Zone.is_peak_hour: the zone's peak_hours, the
                      \* current_time asked about and the value returned

vars == <<store, queue, tick_pc, state, loaded_time, pending, log, ticks,
          restocking_cost, scope, agent_pc, agent_time, iteration_count, enqueued,
          exists, published, taken, settled, built, is_peak>>

----------------------------------------------------------------------------
(* Bounds of the model *)

\* tick iterations and enqueue calls explored by Spec
MaxTicks == 7
MaxMsgs == 2
\* tick iterations and enqueue calls explored by SpecEconomy
EconomyTicks == 15
EconomyMsgs == 2
\* tick iterations, enqueue calls and start (minutes before midnight) of SpecMidnight
MidnightTicks == 6
MidnightMsgs == 2
MidnightLead == 4
\* tick iterations and enqueue calls explored by SpecStore
StoreTicks == 4
StoreMsgs == 1
\* tick iterations and enqueue calls explored by SpecAgent
AgentTicks == 2
AgentMsgs == 2
\* the largest edge cost of the cost maps explored by SpecPaths
PathMaxCost == 3
\* the most peak windows of a zone explored by SpecPeak
MaxWindows == 2
\* SpecStadium: the minute of the day at which the run starts
StadiumStart == 720
\* SpecArrival: the minutes before midnight at which the run starts, tick
\* iterations (the lead and the 10 minutes from downtown-1 to university-1, with
\* a margin) and enqueue calls
ArrivalLead == 4
ArrivalTicks == 16
ArrivalMsgs == 1
\* SpecTruck: tick iterations, and the largest max_inventory, total_revenue,
\* fixed_cost and price_per_unit of the trucks it starts from
TruckTicks == 2
MaxCapacity == 3
MaxRevenue == 8
MaxFixedCost == 2
MaxUnitPrice == 2

----------------------------------------------------------------------------
(* Program constants *)

DayMinutes == 1440
StalenessTolerance == 5
RestockDuration == 10
Infinity == 1000000000
MAX_TOOL_ITERATIONS == 10
MinPrice == 50
MaxPrice == 200
PriceFactor == 100

Abs(x) == IF x < 0 THEN 0 - x ELSE x
Min(a, b) == IF a < b THEN a ELSE b
Max(a, b) == IF a > b THEN a ELSE b

----------------------------------------------------------------------------
(* State.zones: the default city *)

zone_ids == <<"downtown-1", "university-1", "park-1", "residential-1", "stadium-1">>

ZoneSet == {zone_ids[n] : n \in 1..Len(zone_ids)}

costs ==
    [z \in ZoneSet |->
        CASE z = "downtown-1" ->
               ("university-1" :> 10) @@ ("park-1" :> 15) @@ ("residential-1" :> 30)
          [] z = "university-1" ->
               ("downtown-1" :> 10) @@ ("residential-1" :> 15)
          [] z = "park-1" ->
               ("downtown-1" :> 15) @@ ("residential-1" :> 10) @@ ("stadium-1" :> 20)
          [] z = "residential-1" ->
               ("park-1" :> 10) @@ ("university-1" :> 15) @@ ("downtown-1" :> 30)
          [] z = "stadium-1" ->
               ("park-1" :> 20)]

\* Zone.base_demand, in tenths
base_demand ==
    [z \in ZoneSet |->
        CASE z = "downtown-1" -> 10
          [] z = "university-1" -> 6
          [] z = "park-1" -> 4
          [] z = "residential-1" -> 8
          [] z = "stadium-1" -> 0]

\* Zone.peak_hours, (start, end) in minutes of the day
peak_hours ==
    [z \in ZoneSet |->
        CASE z = "downtown-1" -> << <<690, 840>> >>
          [] z = "university-1" -> << <<1320, 60>>, <<900, 1020>> >>
          [] z = "park-1" -> << <<960, 1080>> >>
          [] z = "residential-1" -> << <<1140, 1290>> >>
          [] z = "stadium-1" -> << >>]

----------------------------------------------------------------------------
(* State.compute_paths: Floyd-Warshall, relaxing in place in the order of  *)
(* the three nested loops k, i, j over zone_ids.                           *)

InitialDist(ids, cst) ==
    LET zs == {ids[n] : n \in 1..Len(ids)}
        d0 == [z1 \in zs |-> [z2 \in zs |-> IF z1 = z2 THEN 0 ELSE Infinity]]
    IN [z1 \in zs |->
           [z2 \in zs \cup DOMAIN cst[z1] |->
               IF z2 \in DOMAIN cst[z1] THEN cst[z1][z2] ELSE d0[z1][z2]]]

\* `for j in zone_ids`, from the j-th zone on
RECURSIVE RelaxJ(_, _, _, _, _)
RelaxJ(ids, dist, k, i, j) ==
    IF j > Len(ids) THEN dist
    ELSE LET zk == ids[k]
             zi == ids[i]
             zj == ids[j]
         IN IF dist[zi][zk] + dist[zk][zj] < dist[zi][zj]
              THEN RelaxJ(ids, [dist EXCEPT ![zi][zj] = dist[zi][zk] + dist[zk][zj]],
                          k, i, j + 1)
              ELSE RelaxJ(ids, dist, k, i, j + 1)

\* `for i in zone_ids`, from the i-th zone on
RECURSIVE RelaxI(_, _, _, _)
RelaxI(ids, dist, k, i) ==
    IF i > Len(ids) THEN dist
    ELSE RelaxI(ids, RelaxJ(ids, dist, k, i, 1), k, i + 1)

\* `for k in zone_ids`, from the k-th zone on
RECURSIVE Relax(_, _, _)
Relax(ids, dist, k) ==
    IF k > Len(ids) THEN dist
    ELSE Relax(ids, RelaxI(ids, dist, k, 1), k + 1)

compute_paths(ids, cst) == Relax(ids, InitialDist(ids, cst), 1)

shortest_paths == compute_paths(zone_ids, costs)

\* State.get_travel_time raises KeyError when a key is missing
HasTravelTime(from_zone, to_zone) ==
    from_zone \in DOMAIN shortest_paths /\ to_zone \in DOMAIN shortest_paths[from_zone]

get_travel_time(from_zone, to_zone) == shortest_paths[from_zone][to_zone]

----------------------------------------------------------------------------
(* Truck *)

IDLE == "IDLE"
SERVING == "SERVING"
MOVING == "MOVING"
RESTOCKING == "RESTOCKING"

truck_ids == <<"truck-1", "truck-2", "truck-3">>

TruckSet == {truck_ids[n] : n \in 1..Len(truck_ids)}

\* the configurations of Truck.restocking_cost explored
RestockingCosts == {[fixed_cost |-> 150, price_per_unit |-> 20]}

\* Truck(...) with the field defaults of the class
Truck(zone, inv, max_inv, cost) ==
    [status |-> IDLE,
     current_zone |-> zone,
     destination_zone |-> <<>>,
     inventory |-> inv,
     max_inventory |-> max_inv,
     arrival_time |-> 0,
     restocking_finish_time |-> <<>>,
     restocking_cost |-> cost,
     sales_accummulator |-> 0,
     total_revenue |-> 0]

\* State.trucks: the default fleet
DefaultTrucks(cost) ==
    [t \in TruckSet |->
        CASE t = "truck-1" -> Truck("downtown-1", 150, 200, cost)
          [] t = "truck-2" -> Truck("university-1", 70, 100, cost)
          [] t = "truck-3" -> Truck("residential-1", 50, 50, cost)]

\* State(): current_time 0 and the default fleet
DefaultState(cost) == [current_time |-> 0, trucks |-> DefaultTrucks(cost)]

\* mutant: the units are not capped by the free capacity
restockable_units_uncapped(truck) ==
    IF truck.total_revenue < truck.restocking_cost.fixed_cost THEN 0
    ELSE (truck.total_revenue - truck.restocking_cost.fixed_cost)
             \div truck.restocking_cost.price_per_unit

\* mutant: the fixed cost is left out of what the truck can afford
restockable_units_ignoring_fixed_cost(truck) ==
    IF truck.max_inventory - truck.inventory <= 0 THEN 0
    ELSE Min(truck.max_inventory - truck.inventory,
             truck.total_revenue \div truck.restocking_cost.price_per_unit)

\* Truck.get_max_restockable_units
get_max_restockable_units(truck) ==
    LET units_needed == truck.max_inventory - truck.inventory IN
    IF truck.total_revenue < truck.restocking_cost.fixed_cost \/ units_needed <= 0
      THEN 0
      ELSE LET remaining == truck.total_revenue - truck.restocking_cost.fixed_cost
               max_affordable == remaining \div truck.restocking_cost.price_per_unit
           IN Min(units_needed, max_affordable)

\* Truck.get_restocking_cost(units)
get_restocking_cost(truck, units) ==
    IF units <= 0 THEN 0
    ELSE truck.restocking_cost.fixed_cost + truck.restocking_cost.price_per_unit * units

\* mutant: the truck is filled up whatever its total_revenue is
restock_on_credit(truck) ==
    LET units == truck.max_inventory - truck.inventory IN
    IF units <= 0
      THEN [truck |-> truck, units |-> 0, cost |-> 0]
      ELSE LET cost == get_restocking_cost(truck, units) IN
           [truck |-> [truck EXCEPT !.inventory = @ + units, !.total_revenue = @ - cost],
            units |-> units,
            cost |-> cost]

\* mutant: a restock that buys nothing still pays the fixed cost it can afford
restock_paying_for_nothing(truck) ==
    LET units == get_max_restockable_units(truck) IN
    IF units <= 0
      THEN [truck |-> IF truck.total_revenue >= truck.restocking_cost.fixed_cost
                        THEN [truck EXCEPT !.total_revenue =
                                             @ - truck.restocking_cost.fixed_cost]
                        ELSE truck,
            units |-> 0, cost |-> 0]
      ELSE LET cost == get_restocking_cost(truck, units) IN
           [truck |-> [truck EXCEPT !.inventory = @ + units, !.total_revenue = @ - cost],
            units |-> units,
            cost |-> cost]

\* Truck.restock: the truck afterwards and the returned (units, cost)
restock(truck) ==
    LET units == get_max_restockable_units(truck) IN
    IF units <= 0
      THEN [truck |-> truck, units |-> 0, cost |-> 0]
      ELSE LET cost == get_restocking_cost(truck, units) IN
           [truck |-> [truck EXCEPT !.inventory = @ + units, !.total_revenue = @ - cost],
            units |-> units,
            cost |-> cost]

\* `truck.restocking_finish_time and ...`: None and 0 are falsy
Truthy(opt) == opt # <<>> /\ opt[1] # 0

----------------------------------------------------------------------------
(* Action messages and the queue (redis_client) *)

DISPATCH == "dispatch_truck"
RESTOCK == "restock_inventory"
HOLD == "hold_position"
START == "start_serving"

\* tools/*.py: the message a tool call enqueues, stamped with the snapshot's time;
\* seq numbers the enqueue calls (the free-text reasoning is left out)
Message(action, snapshot_time, truck_id, dest, seq) ==
    [action |-> action,
     current_time |-> snapshot_time,
     truck_id |-> truck_id,
     destination_zone |-> dest,
     seq |-> seq]

\* mutant: RPUSH, the message is put at the tail
RPush(q, m) == q \o <<m>>

\* enqueue: LPUSH puts the message at the head of the list
LPush(q, m) == <<m>> \o q

\* LINDEX with Redis' negative indices counting from the tail
LIndex(q, i) == IF i >= 0 THEN q[i + 1] ELSE q[Len(q) + i + 1]

\* dequeue: RPOP takes the message at the tail; None on an empty list
RPopValue(q) == IF q = <<>> THEN <<>> ELSE <<q[Len(q)]>>

RPopRest(q) == IF q = <<>> THEN q ELSE SubSeq(q, 1, Len(q) - 1)

\* peek: LINDEX queue -1
peek(q) == IF q = <<>> THEN <<>> ELSE <<LIndex(q, 0 - 1)>>

\* queue_length: LLEN
queue_length(q) == Len(q)

----------------------------------------------------------------------------
(* process_action: the state afterwards, the event logged and whether an   *)
(* exception left the function                                             *)

Outcome(st, event, raised) == [state |-> st, event |-> event, raised |-> raised]

\* mutant: the difference is taken around the clock
IsStale_circular(now, action_time) ==
    Min(Abs(now - action_time), DayMinutes - Abs(now - action_time)) > StalenessTolerance

\* mutant: a difference of exactly the tolerance is already stale
IsStale_inclusive(now, action_time) == Abs(now - action_time) >= StalenessTolerance

IsStale(now, action_time) == Abs(now - action_time) > StalenessTolerance

\* mutant: the arrival time counts from the message's stamp
process_dispatch_from_stamp(st, m) ==
    IF m.truck_id \notin DOMAIN st.trucks
      THEN Outcome(st, "truck_not_found", FALSE)
    ELSE LET truck == st.trucks[m.truck_id] IN
         IF ~HasTravelTime(truck.current_zone, m.destination_zone[1])
           THEN Outcome(st, "KeyError", TRUE)
           ELSE LET travel_time == get_travel_time(truck.current_zone, m.destination_zone[1])
                IN Outcome([st EXCEPT !.trucks[m.truck_id] =
                               [truck EXCEPT !.destination_zone = m.destination_zone,
                                             !.arrival_time = m.current_time + travel_time,
                                             !.status = MOVING]],
                           "dispatched", FALSE)

process_dispatch(st, m) ==
    IF m.truck_id \notin DOMAIN st.trucks
      THEN Outcome(st, "truck_not_found", FALSE)
    ELSE LET truck == st.trucks[m.truck_id] IN
         IF ~HasTravelTime(truck.current_zone, m.destination_zone[1])
           THEN Outcome(st, "KeyError", TRUE)
           ELSE LET travel_time == get_travel_time(truck.current_zone, m.destination_zone[1])
                IN Outcome([st EXCEPT !.trucks[m.truck_id] =
                               [truck EXCEPT !.destination_zone = m.destination_zone,
                                             !.arrival_time = st.current_time + travel_time,
                                             !.status = MOVING]],
                           "dispatched", FALSE)

\* mutant: conflict detection, the first action wins: a truck on the road is
\* not taken off it, the restock is acknowledged and ignored
process_restock_first_wins(st, m) ==
    IF m.truck_id \notin DOMAIN st.trucks
      THEN Outcome(st, "truck_not_found", FALSE)
    ELSE IF st.trucks[m.truck_id].status = MOVING
      THEN Outcome(st, "restocking_started", FALSE)
      ELSE Outcome([st EXCEPT !.trucks[m.truck_id] =
                      [@ EXCEPT !.status = RESTOCKING,
                                !.restocking_finish_time =
                                    <<st.current_time + RestockDuration>>]],
                   "restocking_started", FALSE)

\* mutant: the restock is due one minute early
process_restock_one_minute_short(st, m) ==
    IF m.truck_id \notin DOMAIN st.trucks
      THEN Outcome(st, "truck_not_found", FALSE)
      ELSE Outcome([st EXCEPT !.trucks[m.truck_id] =
                      [@ EXCEPT !.status = RESTOCKING,
                                !.restocking_finish_time =
                                    <<st.current_time + RestockDuration - 1>>]],
                   "restocking_started", FALSE)

\* mutant: the truck is used without the check that it was found
process_restock_unchecked(st, m) ==
    IF m.truck_id \notin DOMAIN st.trucks
      THEN Outcome(st, "AttributeError", TRUE)
      ELSE Outcome([st EXCEPT !.trucks[m.truck_id] =
                      [@ EXCEPT !.status = RESTOCKING,
                                !.restocking_finish_time =
                                    <<st.current_time + RestockDuration>>]],
                   "restocking_started", FALSE)

process_restock(st, m) ==
    IF m.truck_id \notin DOMAIN st.trucks
      THEN Outcome(st, "truck_not_found", FALSE)
      ELSE Outcome([st EXCEPT !.trucks[m.truck_id] =
                      [@ EXCEPT !.status = RESTOCKING,
                                !.restocking_finish_time =
                                    <<st.current_time + RestockDuration>>]],
                   "restocking_started", FALSE)

process_action(st, m) ==
    IF IsStale(st.current_time, m.current_time) THEN Outcome(st, "stale", FALSE)
    ELSE IF m.action = DISPATCH THEN process_dispatch(st, m)
    ELSE IF m.action = RESTOCK THEN process_restock(st, m)
    ELSE IF m.action = HOLD THEN Outcome(st, "holding", FALSE)
    ELSE Outcome(st, "no_branch", FALSE)

----------------------------------------------------------------------------
(* game_loop: demand and the per-truck resolution of one tick *)

\* the levels of zone.demand[t] / zone.base_demand explored, in halves:
\* get_demand returns a non-negative float (a gaussian plus floored noise)
DemandLevels == {1, 100}

\* net_demand written to zone.demand[current_time]: the sum over the zone's
\* peak windows (0 for a zone without windows), in twentieths
net_demand(zone, level) ==
    IF peak_hours[zone] = <<>> THEN 0 ELSE level * base_demand[zone]

\* mutant: the price per unit is not clamped to 50..200
process_sales_unclamped_price(truck, demand, base) ==
    IF truck.inventory > 0
      THEN IF base = 0
             THEN [truck |-> truck, event |-> "ZeroDivisionError", raised |-> TRUE]
             ELSE LET depletion_rate == demand \div base
                      accumulated == truck.sales_accummulator + depletion_rate
                      units_to_sell == accumulated \div 2
                  IN IF units_to_sell >= 1
                       THEN LET units == Min(units_to_sell, truck.inventory)
                                price_per_unit == (PriceFactor * depletion_rate) \div 2
                            IN [truck |-> [truck EXCEPT
                                              !.sales_accummulator = accumulated - 2 * units,
                                              !.inventory = @ - units,
                                              !.total_revenue = @ + price_per_unit * units],
                                event |-> "sold", raised |-> FALSE]
                       ELSE [truck |-> [truck EXCEPT !.sales_accummulator = accumulated],
                             event |-> "accumulated", raised |-> FALSE]
      ELSE [truck |-> truck, event |-> "sold_out", raised |-> FALSE]

\* the SERVING branch (Truck.process_sales holds the same code)
process_sales(truck, demand, base) ==
    IF truck.inventory > 0
      THEN IF base = 0
             THEN [truck |-> truck, event |-> "ZeroDivisionError", raised |-> TRUE]
             ELSE LET depletion_rate == demand \div base
                      accumulated == truck.sales_accummulator + depletion_rate
                      units_to_sell == accumulated \div 2
                  IN IF units_to_sell >= 1
                       THEN LET units == Min(units_to_sell, truck.inventory)
                                price_per_unit ==
                                    Max(MinPrice,
                                        Min(MaxPrice, (PriceFactor * depletion_rate) \div 2))
                            IN [truck |-> [truck EXCEPT
                                              !.sales_accummulator = accumulated - 2 * units,
                                              !.inventory = @ - units,
                                              !.total_revenue = @ + price_per_unit * units],
                                event |-> "sold", raised |-> FALSE]
                       ELSE [truck |-> [truck EXCEPT !.sales_accummulator = accumulated],
                             event |-> "accumulated", raised |-> FALSE]
      ELSE [truck |-> truck, event |-> "sold_out", raised |-> FALSE]

\* mutant: a truck arrives only after its arrival_time has passed
resolve_truck_arriving_late(truck, now, demand) ==
    IF /\ truck.status = RESTOCKING
       /\ Truthy(truck.restocking_finish_time)
       /\ now >= truck.restocking_finish_time[1]
      THEN LET r == restock(truck) IN
           [truck |-> [r.truck EXCEPT !.status = SERVING, !.restocking_finish_time = <<>>],
            event |-> IF r.units > 0 THEN "restocked" ELSE "restock_failed",
            raised |-> FALSE]
    ELSE IF truck.status = SERVING
      THEN process_sales(truck, demand[truck.current_zone], base_demand[truck.current_zone])
    ELSE IF truck.status = MOVING /\ now > truck.arrival_time
      THEN [truck |-> [truck EXCEPT
                          !.status = SERVING,
                          !.current_zone =
                              IF truck.destination_zone # <<>>
                                THEN truck.destination_zone[1] ELSE @,
                          !.destination_zone = <<>>],
            event |-> "arrived", raised |-> FALSE]
    ELSE [truck |-> truck, event |-> "none", raised |-> FALSE]

\* mutant: the serving branch is an `if` of its own, so that a truck that has
\* just completed its restock sells in the same tick (at a rate of 1 a minute
\* where no demand was drawn for its zone)
resolve_truck_selling_at_once(truck, now, demand) ==
    IF /\ truck.status = RESTOCKING
       /\ Truthy(truck.restocking_finish_time)
       /\ now >= truck.restocking_finish_time[1]
      THEN LET r == restock(truck)
               serving == [r.truck EXCEPT !.status = SERVING,
                                          !.restocking_finish_time = <<>>]
               zone == truck.current_zone
               sale == process_sales(serving,
                                     IF zone \in DOMAIN demand THEN demand[zone]
                                     ELSE net_demand(zone, 2),
                                     base_demand[zone])
           IN [truck |-> sale.truck,
               event |-> IF r.units > 0 THEN "restocked" ELSE "restock_failed",
               raised |-> sale.raised]
    ELSE IF truck.status = SERVING
      THEN process_sales(truck, demand[truck.current_zone], base_demand[truck.current_zone])
    ELSE IF truck.status = MOVING /\ now >= truck.arrival_time
      THEN [truck |-> [truck EXCEPT
                          !.status = SERVING,
                          !.current_zone =
                              IF truck.destination_zone # <<>>
                                THEN truck.destination_zone[1] ELSE @,
                          !.destination_zone = <<>>],
            event |-> "arrived", raised |-> FALSE]
    ELSE [truck |-> truck, event |-> "none", raised |-> FALSE]

\* the body of `for truck in state.trucks`
resolve_truck(truck, now, demand) ==
    IF /\ truck.status = RESTOCKING
       /\ Truthy(truck.restocking_finish_time)
       /\ now >= truck.restocking_finish_time[1]
      THEN LET r == restock(truck) IN
           [truck |-> [r.truck EXCEPT !.status = SERVING, !.restocking_finish_time = <<>>],
            event |-> IF r.units > 0 THEN "restocked" ELSE "restock_failed",
            raised |-> FALSE]
    ELSE IF truck.status = SERVING
      THEN process_sales(truck, demand[truck.current_zone], base_demand[truck.current_zone])
    ELSE IF truck.status = MOVING /\ now >= truck.arrival_time
      THEN [truck |-> [truck EXCEPT
                          !.status = SERVING,
                          !.current_zone =
                              IF truck.destination_zone # <<>>
                                THEN truck.destination_zone[1] ELSE @,
                          !.destination_zone = <<>>],
            event |-> "arrived", raised |-> FALSE]
    ELSE [truck |-> truck, event |-> "none", raised |-> FALSE]

\* the zones whose demand a truck reads in this tick
SellingZones(st) ==
    {st.trucks[t].current_zone : t \in
        {u \in DOMAIN st.trucks : st.trucks[u].status = SERVING /\ st.trucks[u].inventory > 0}}

NoResolution == [t \in TruckSet |-> "none"]

\* the tick's log: the last event, the message it is about (its seq and its
\* current_time stamp, 0 when it is about none), the events of the drain so far
\* and what the resolution logged for each truck
LogEntry(event, seq, action_time, batch, resolved) ==
    [event |-> event, seq |-> seq, action_time |-> action_time,
     batch |-> batch, resolved |-> resolved]

\* mutant: at the end of the day only current_time starts over
advance_time_keeping_trucks(loaded, cost) ==
    LET t == loaded.current_time + 1 IN
    [loaded EXCEPT !.current_time = IF t = DayMinutes THEN 0 ELSE t]

\* mutant: the end of the day is not noticed
advance_time_without_reset(loaded, cost) ==
    [loaded EXCEPT !.current_time = @ + 1]

\* `state.current_time = state.current_time + 1` and the day reset `state = State()`
advance_time(loaded, cost) ==
    LET t == loaded.current_time + 1 IN
    IF t = DayMinutes THEN DefaultState(cost) ELSE [loaded EXCEPT !.current_time = t]

----------------------------------------------------------------------------
(* game_loop: one iteration of `while True`, split at its awaits *)

\* `while True`: the tick iterations of the run are not counted
Endless == 0 - 1

\* client.get, then the time advance and the day reset
TickLoad ==
    /\ tick_pc = "load"
    /\ scope.max_ticks = Endless \/ ticks < scope.max_ticks
    /\ ticks' = IF scope.max_ticks = Endless THEN ticks ELSE ticks + 1
    /\ taken' = <<>>
    /\ IF exists
         THEN /\ state' = advance_time(store, restocking_cost)
              /\ loaded_time' = store.current_time
              /\ tick_pc' = "length"
              /\ log' = LogEntry("tick", 0, 0, <<>>, NoResolution)
         ELSE \* client.get returns None and model_validate_json raises
              /\ log' = LogEntry("error", 0, 0, <<>>, NoResolution)
              /\ UNCHANGED <<state, loaded_time, tick_pc>>
    /\ UNCHANGED <<store, queue, pending, restocking_cost, scope,
                   agent_pc, agent_time, iteration_count, enqueued,
                   exists, published, settled, built, is_peak>>

\* pending_actions_length = await queue_length(...)
TickLength ==
    /\ tick_pc = "length"
    /\ pending' = queue_length(queue)
    /\ tick_pc' = "drain"
    /\ UNCHANGED <<store, queue, state, loaded_time, log, ticks, restocking_cost, scope,
                   agent_pc, agent_time, iteration_count, enqueued,
                   exists, published, taken, settled, built, is_peak>>

\* mutant: a message stamped 0 is passed to process_action like any other
TickDequeue_passing_stamp_zero ==
    /\ tick_pc = "drain"
    /\ pending > 0
    /\ queue' = RPopRest(queue)
    /\ taken' = IF RPopValue(queue) = <<>> THEN taken
                ELSE Append(taken, RPopValue(queue)[1].seq)
    /\ LET payload == RPopValue(queue) IN
       IF payload = <<>>
         THEN /\ pending' = pending - 1
              /\ log' = LogEntry("empty", 0, 0, Append(log.batch, "empty"), NoResolution)
              /\ UNCHANGED <<state, tick_pc>>
       ELSE LET out == process_action(state, payload[1]) IN
            IF out.raised
              THEN /\ tick_pc' = "load"
                   /\ state' = store
                   /\ pending' = 0
                   /\ log' = LogEntry("error", payload[1].seq, payload[1].current_time,
                                    Append(log.batch, out.event), NoResolution)
              ELSE /\ state' = out.state
                   /\ pending' = pending - 1
                   /\ log' = LogEntry(out.event, payload[1].seq, payload[1].current_time,
                                    Append(log.batch, out.event), NoResolution)
                   /\ UNCHANGED tick_pc
    /\ UNCHANGED <<store, loaded_time, ticks, restocking_cost, scope,
                   agent_pc, agent_time, iteration_count, enqueued,
                   exists, published, settled, built, is_peak>>

\* mutant: the except branch writes the tick's local state to the store
TickDequeue_saving_on_error ==
    /\ tick_pc = "drain"
    /\ pending > 0
    /\ queue' = RPopRest(queue)
    /\ taken' = IF RPopValue(queue) = <<>> THEN taken
                ELSE Append(taken, RPopValue(queue)[1].seq)
    /\ LET payload == RPopValue(queue) IN
       IF payload = <<>>
         THEN /\ pending' = pending - 1
              /\ log' = LogEntry("empty", 0, 0, Append(log.batch, "empty"), NoResolution)
              /\ UNCHANGED <<state, tick_pc, store>>
       ELSE IF payload[1].current_time = 0
         THEN /\ pending' = pending - 1
              /\ log' = LogEntry("no_action_time", payload[1].seq, 0,
                               Append(log.batch, "no_action_time"), NoResolution)
              /\ UNCHANGED <<state, tick_pc, store>>
       ELSE LET out == process_action(state, payload[1]) IN
            IF out.raised
              THEN /\ tick_pc' = "load"
                   /\ store' = state
                   /\ state' = state
                   /\ pending' = 0
                   /\ log' = LogEntry("error", payload[1].seq, payload[1].current_time,
                                    Append(log.batch, out.event), NoResolution)
              ELSE /\ state' = out.state
                   /\ pending' = pending - 1
                   /\ log' = LogEntry(out.event, payload[1].seq, payload[1].current_time,
                                    Append(log.batch, out.event), NoResolution)
                   /\ UNCHANGED <<tick_pc, store>>
    /\ UNCHANGED <<loaded_time, ticks, restocking_cost, scope,
                   agent_pc, agent_time, iteration_count, enqueued,
                   exists, published, settled, built, is_peak>>

\* one pass of `for i in range(0, pending_actions_length)`
TickDequeue ==
    /\ tick_pc = "drain"
    /\ pending > 0
    /\ queue' = RPopRest(queue)
    /\ taken' = IF RPopValue(queue) = <<>> THEN taken
                ELSE Append(taken, RPopValue(queue)[1].seq)
    /\ LET payload == RPopValue(queue) IN
       IF payload = <<>>
         THEN /\ pending' = pending - 1
              /\ log' = LogEntry("empty", 0, 0, Append(log.batch, "empty"), NoResolution)
              /\ UNCHANGED <<state, tick_pc>>
       ELSE IF payload[1].current_time = 0
         THEN /\ pending' = pending - 1
              /\ log' = LogEntry("no_action_time", payload[1].seq, 0,
                               Append(log.batch, "no_action_time"), NoResolution)
              /\ UNCHANGED <<state, tick_pc>>
       ELSE LET out == process_action(state, payload[1]) IN
            IF out.raised
              THEN /\ tick_pc' = "load"
                   /\ state' = store
                   /\ pending' = 0
                   /\ log' = LogEntry("error", payload[1].seq, payload[1].current_time,
                                    Append(log.batch, out.event), NoResolution)
              ELSE /\ state' = out.state
                   /\ pending' = pending - 1
                   /\ log' = LogEntry(out.event, payload[1].seq, payload[1].current_time,
                                    Append(log.batch, out.event), NoResolution)
                   /\ UNCHANGED tick_pc
    /\ UNCHANGED <<store, loaded_time, ticks, restocking_cost, scope,
                   agent_pc, agent_time, iteration_count, enqueued,
                   exists, published, settled, built, is_peak>>

\* demand update, truck resolution and client.set
TickResolve ==
    /\ tick_pc = "drain"
    /\ pending = 0
    /\ \E level \in [SellingZones(state) -> scope.levels] :
         LET demand == [z \in SellingZones(state) |-> net_demand(z, level[z])]
             res == [t \in DOMAIN state.trucks |->
                        resolve_truck(state.trucks[t], state.current_time, demand)]
         IN IF \E t \in DOMAIN res : res[t].raised
              THEN /\ log' = LogEntry("error", 0, 0, log.batch, NoResolution)
                   /\ state' = store
                   /\ UNCHANGED <<store, exists, settled>>
              ELSE \* client.set writes the blob, also when the key was gone
                   /\ store' = [state EXCEPT !.trucks = [t \in DOMAIN res |-> res[t].truck]]
                   /\ exists' = TRUE
                   /\ settled' = settled \cup {taken[n] : n \in 1..Len(taken)}
                   /\ state' = store'
                   /\ log' = LogEntry("persisted", 0, 0, log.batch,
                                    [t \in DOMAIN res |-> res[t].event])
    /\ tick_pc' = "load"
    /\ UNCHANGED <<queue, loaded_time, pending, ticks, restocking_cost, scope,
                   agent_pc, agent_time, iteration_count, enqueued,
                   published, taken, built, is_peak>>

----------------------------------------------------------------------------
(* agent_decision_loop: one cycle, split at its awaits *)

UnknownTruck == "truck-9"
UnknownZone == "atlantis"

\* the tool calls of the decision-maker explored: <<tool, truck_id, destination_zone>>
ToolCalls ==
    {<<DISPATCH, "truck-1", <<"downtown-1">> >>,
     <<DISPATCH, "truck-1", <<"university-1">> >>,
     <<DISPATCH, "truck-1", <<UnknownZone>> >>,
     <<DISPATCH, UnknownTruck, <<UnknownZone>> >>,
     <<RESTOCK, "truck-1", <<>> >>,
     <<RESTOCK, UnknownTruck, <<>> >>,
     <<HOLD, "truck-1", <<>> >>,
     <<START, "truck-1", <<>> >>}

\* mutant: the cycle goes on whatever the queue length is
AgentCheckQueue_not_skipping ==
    /\ agent_pc = "sleep"
    /\ enqueued < scope.max_msgs
    /\ agent_pc' = "snapshot"
    /\ UNCHANGED <<store, queue, tick_pc, state, loaded_time, pending, log, ticks,
                   restocking_cost, scope, agent_time, iteration_count, enqueued,
                   exists, published, taken, settled, built, is_peak>>

\* queue_length at the start of the cycle: skip while actions are pending
AgentCheckQueue ==
    /\ agent_pc = "sleep"
    /\ enqueued < scope.max_msgs
    /\ agent_pc' = IF queue_length(queue) > 0 THEN "sleep" ELSE "snapshot"
    /\ UNCHANGED <<store, queue, tick_pc, state, loaded_time, pending, log, ticks,
                   restocking_cost, scope, agent_time, iteration_count, enqueued,
                   exists, published, taken, settled, built, is_peak>>

\* state = State.model_validate_json(await redis_client.get(...))
AgentSnapshot ==
    /\ agent_pc = "snapshot"
    /\ IF exists
         THEN /\ agent_time' = store.current_time
              /\ agent_pc' = "chat"
         ELSE \* `if not state: continue`
              /\ agent_time' = 0
              /\ agent_pc' = "sleep"
    /\ iteration_count' = 0
    /\ UNCHANGED <<store, queue, tick_pc, state, loaded_time, pending, log, ticks,
                   restocking_cost, scope, enqueued,
                   exists, published, taken, settled, built, is_peak>>

\* mutant: the loop condition lets one more request through
AgentChat_one_more ==
    /\ agent_pc = "chat"
    /\ IF iteration_count <= MAX_TOOL_ITERATIONS
         THEN \E has_tool_calls \in BOOLEAN :
                IF has_tool_calls
                  THEN /\ agent_pc' = "tools"
                       /\ iteration_count' = iteration_count + 1
                       /\ UNCHANGED agent_time
                  ELSE /\ agent_pc' = "sleep"
                       /\ iteration_count' = 0
                       /\ agent_time' = 0
         ELSE /\ agent_pc' = "sleep"
              /\ iteration_count' = 0
              /\ agent_time' = 0
    /\ UNCHANGED <<store, queue, tick_pc, state, loaded_time, pending, log, ticks,
                   restocking_cost, scope, enqueued,
                   exists, published, taken, settled, built, is_peak>>

\* one pass of `while iteration_count < MAX_TOOL_ITERATIONS`: the request and
\* whether the answer carries tool calls
AgentChat ==
    /\ agent_pc = "chat"
    /\ IF iteration_count < MAX_TOOL_ITERATIONS
         THEN \E has_tool_calls \in BOOLEAN :
                IF has_tool_calls
                  THEN /\ agent_pc' = "tools"
                       /\ iteration_count' = iteration_count + 1
                       /\ UNCHANGED agent_time
                  ELSE /\ agent_pc' = "sleep"
                       /\ iteration_count' = 0
                       /\ agent_time' = 0
         ELSE /\ agent_pc' = "sleep"
              /\ iteration_count' = 0
              /\ agent_time' = 0
    /\ UNCHANGED <<store, queue, tick_pc, state, loaded_time, pending, log, ticks,
                   restocking_cost, scope, enqueued,
                   exists, published, taken, settled, built, is_peak>>

\* mutant: the tool stamps the message with the stored current_time of the
\* moment of the enqueue
AgentToolCall_stamping_now ==
    /\ agent_pc = "tools"
    /\ enqueued < scope.max_msgs
    /\ \E call \in scope.calls :
         queue' = LPush(queue, Message(call[1], store.current_time, call[2], call[3],
                                       enqueued + 1))
    /\ enqueued' = enqueued + 1
    /\ IF enqueued' = scope.max_msgs
         THEN /\ agent_pc' = "unexplored"
              /\ agent_time' = 0
              /\ iteration_count' = 0
         ELSE /\ \E last \in BOOLEAN : agent_pc' = IF last THEN "chat" ELSE "tools"
              /\ UNCHANGED <<agent_time, iteration_count>>
    /\ UNCHANGED <<store, tick_pc, state, loaded_time, pending, log, ticks,
                   restocking_cost, scope, exists, published, taken, settled, built, is_peak>>

\* mutant: the tool saves the snapshot it was given next to its enqueue
AgentToolCall_saving_snapshot ==
    /\ agent_pc = "tools"
    /\ enqueued < scope.max_msgs
    /\ \E call \in scope.calls :
         queue' = LPush(queue, Message(call[1], agent_time, call[2], call[3], enqueued + 1))
    /\ store' = [store EXCEPT !.current_time = agent_time]
    /\ enqueued' = enqueued + 1
    /\ IF enqueued' = scope.max_msgs
         THEN /\ agent_pc' = "unexplored"
              /\ agent_time' = 0
              /\ iteration_count' = 0
         ELSE /\ \E last \in BOOLEAN : agent_pc' = IF last THEN "chat" ELSE "tools"
              /\ UNCHANGED <<agent_time, iteration_count>>
    /\ UNCHANGED <<tick_pc, state, loaded_time, pending, log, ticks,
                   restocking_cost, scope, exists, published, taken, settled, built, is_peak>>

\* one tool call of the answer that is an enqueueing tool, and whether it is the
\* last call of the answer; the decision loop is not followed beyond the last
\* enqueue call the run explores
AgentToolCall ==
    /\ agent_pc = "tools"
    /\ enqueued < scope.max_msgs
    /\ \E call \in scope.calls :
         queue' = LPush(queue, Message(call[1], agent_time, call[2], call[3], enqueued + 1))
    /\ enqueued' = enqueued + 1
    /\ IF enqueued' = scope.max_msgs
         THEN /\ agent_pc' = "unexplored"
              /\ agent_time' = 0
              /\ iteration_count' = 0
         ELSE /\ \E last \in BOOLEAN : agent_pc' = IF last THEN "chat" ELSE "tools"
              /\ UNCHANGED <<agent_time, iteration_count>>
    /\ UNCHANGED <<store, tick_pc, state, loaded_time, pending, log, ticks,
                   restocking_cost, scope, exists, published, taken, settled, built, is_peak>>

----------------------------------------------------------------------------

\* Zone.is_peak_hour is not being called
NoPeakCall == [peak_hours |-> <<>>, current_time |-> 0, returned |-> <<>>]

\* no State is under construction
NoConstruction == [zone_ids |-> <<>>, costs |-> <<>>, shortest_paths |-> <<>>]

Scope(max_ticks, max_msgs, calls, levels) ==
    [max_ticks |-> max_ticks, max_msgs |-> max_msgs, calls |-> calls, levels |-> levels]

\* game_loop start: the blob exists with current_time start_time and the default
\* fleet (the state that start_time ticks without an applied action leave)
InitLoops(start_time, sc) ==
    /\ restocking_cost \in RestockingCosts
    /\ scope = sc
    /\ store = [DefaultState(restocking_cost) EXCEPT !.current_time = start_time]
    /\ queue = <<>>
    /\ tick_pc = "load"
    /\ state = store
    /\ loaded_time = start_time
    /\ pending = 0
    /\ log = LogEntry("started", 0, 0, <<>>, NoResolution)
    /\ ticks = 0
    /\ agent_pc = "sleep"
    /\ agent_time = 0
    /\ iteration_count = 0
    /\ enqueued = 0
    /\ exists = TRUE
    /\ published = <<>>
    /\ taken = <<>>
    /\ settled = {}

\* the same, with no State under construction apart from the loops' own
InitAt(start_time, sc) ==
    /\ InitLoops(start_time, sc)
    /\ built = NoConstruction
    /\ is_peak = NoPeakCall

Next ==
    \/ TickLoad
    \/ TickLength
    \/ TickDequeue
    \/ TickResolve
    \/ AgentCheckQueue
    \/ AgentSnapshot
    \/ AgentChat
    \/ AgentToolCall

\* the action pipeline: every tool call, a few ticks from the start of the day
PipelineLevels == {1}

Init == InitAt(0, Scope(MaxTicks, MaxMsgs, ToolCalls, PipelineLevels))

Spec == Init /\ [][Next]_vars

\* the truck economy: one truck dispatched to its own zone, serving and restocking
EconomyCalls ==
    {<<DISPATCH, "truck-1", <<"downtown-1">> >>, <<RESTOCK, "truck-1", <<>> >>}

InitEconomy == InitAt(0, Scope(EconomyTicks, EconomyMsgs, EconomyCalls, DemandLevels))

SpecEconomy == InitEconomy /\ [][Next]_vars

\* the day rollover: the run starts MidnightLead minutes before the end of the day
MidnightCalls ==
    {<<DISPATCH, "truck-1", <<"downtown-1">> >>, <<RESTOCK, "truck-1", <<>> >>}

MidnightLevels == {100}

InitMidnight ==
    InitAt(DayMinutes - MidnightLead,
           Scope(MidnightTicks, MidnightMsgs, MidnightCalls, MidnightLevels))

SpecMidnight == InitMidnight /\ [][Next]_vars

\* the decision loop with the tool calls that enqueue nothing
AgentCalls == {<<HOLD, "truck-1", <<>> >>}

\* one tool call of the answer that enqueues nothing (get_zone_forecast, or a
\* function name that is not in available_functions), and whether it is the last
AgentOtherCall ==
    /\ agent_pc = "tools"
    /\ \E last \in BOOLEAN : agent_pc' = IF last THEN "chat" ELSE "tools"
    /\ UNCHANGED <<store, queue, tick_pc, state, loaded_time, pending, log, ticks,
                   restocking_cost, scope, agent_time, iteration_count, enqueued,
                   exists, published, taken, settled, built, is_peak>>

NextAgent == Next \/ AgentOtherCall

InitAgent == InitAt(0, Scope(AgentTicks, AgentMsgs, AgentCalls, PipelineLevels))

SpecAgent == InitAgent /\ [][NextAgent]_vars

----------------------------------------------------------------------------
(* The store outside the two loops *)

\* the key config.game_state_key leaves the store (deleted, flushed or expired)
\* while the loops run: from then on client.get and redis_client.get return None
StoreEvict ==
    /\ exists
    /\ exists' = FALSE
    /\ UNCHANGED <<store, queue, tick_pc, state, loaded_time, pending, log, ticks,
                   restocking_cost, scope, agent_pc, agent_time, iteration_count,
                   enqueued, published, taken, settled, built, is_peak>>

NextStore == Next \/ StoreEvict

StoreCalls == {<<RESTOCK, "truck-1", <<>> >>}

InitStore == InitAt(0, Scope(StoreTicks, StoreMsgs, StoreCalls, PipelineLevels))

SpecStore == InitStore /\ [][NextStore]_vars

----------------------------------------------------------------------------
(* State construction over any zone list: the model validator compute_paths *)

PathZones == <<"a", "b", "c">>
PathZoneSet == {PathZones[n] : n \in 1..Len(PathZones)}

\* Zone.costs is a dict[str, int]: each zone maps any of the zone ids (its own
\* included) to a cost in minutes
CostMaps ==
    [PathZoneSet -> UNION {[D -> 1..PathMaxCost] : D \in SUBSET PathZoneSet}]

\* State(zones=...) before its validators have run
InitPaths ==
    /\ InitLoops(0, Scope(0, 0, {}, {}))
    /\ \E cst \in CostMaps :
         built = [zone_ids |-> PathZones, costs |-> cst, shortest_paths |-> <<>>]
    /\ is_peak = NoPeakCall

\* compute_paths: `if not self.shortest_paths`, fill the table
ComputePaths ==
    /\ built.zone_ids # <<>>
    /\ built.shortest_paths = <<>>
    /\ built' = [built EXCEPT !.shortest_paths = compute_paths(built.zone_ids, built.costs)]
    /\ UNCHANGED <<store, queue, tick_pc, state, loaded_time, pending, log, ticks,
                   restocking_cost, scope, agent_pc, agent_time, iteration_count,
                   enqueued, exists, published, taken, settled, is_peak>>

NextPaths == ComputePaths

SpecPaths == InitPaths /\ [][NextPaths]_vars

----------------------------------------------------------------------------
(* The tick loop over a blob in which truck-1 is in the middle of its day *)

\* depletion rates explored, in halves: 0.5, 1.5 and 50
TruckLevels == {1, 3, 100}

\* RestockingCost(fixed_cost, price_per_unit)
TruckCosts == [fixed_cost : 0..MaxFixedCost, price_per_unit : 1..MaxUnitPrice]

\* <<inventory, max_inventory>>: every small pair, and truck-1's default
CapacityCases ==
    {c \in (0..MaxCapacity) \X (1..MaxCapacity) : c[1] <= c[2]} \cup {<<150, 200>>}

\* truck-1 serving downtown-1
ServingTrucks(cost) ==
    {[Truck("downtown-1", c[1], c[2], cost) EXCEPT
         !.status = SERVING, !.sales_accummulator = a, !.total_revenue = r] :
       c \in CapacityCases, a \in 0..1, r \in 0..MaxRevenue}

\* truck-1 on its way from downtown-1 to university-1
MovingTrucks(cost) ==
    {[Truck("downtown-1", c[1], c[2], cost) EXCEPT
         !.status = MOVING, !.destination_zone = <<"university-1">>,
         !.arrival_time = at, !.sales_accummulator = a] :
       c \in CapacityCases, at \in 1..TruckTicks, a \in 0..1}

\* truck-1 restocking
RestockingTrucks(cost) ==
    {[Truck("downtown-1", c[1], c[2], cost) EXCEPT
         !.status = RESTOCKING, !.restocking_finish_time = <<f>>,
         !.total_revenue = r] :
       c \in CapacityCases, f \in 1..TruckTicks, r \in 0..MaxRevenue}

InitTruck ==
    /\ restocking_cost \in TruckCosts
    /\ scope = Scope(TruckTicks, 0, {}, TruckLevels)
    /\ \E truck \in ServingTrucks(restocking_cost) \cup MovingTrucks(restocking_cost)
                      \cup RestockingTrucks(restocking_cost) :
         store = [current_time |-> 0,
                  trucks |-> [DefaultTrucks(restocking_cost) EXCEPT !["truck-1"] = truck]]
    /\ queue = <<>>
    /\ tick_pc = "load"
    /\ state = store
    /\ loaded_time = 0
    /\ pending = 0
    /\ log = LogEntry("started", 0, 0, <<>>, NoResolution)
    /\ ticks = 0
    /\ agent_pc = "sleep"
    /\ agent_time = 0
    /\ iteration_count = 0
    /\ enqueued = 0
    /\ exists = TRUE
    /\ published = <<>>
    /\ taken = <<>>
    /\ settled = {}
    /\ built = NoConstruction
    /\ is_peak = NoPeakCall

\* the tick loop alone: the queue stays empty
NextTruck == TickLoad \/ TickLength \/ TickResolve

SpecTruck == InitTruck /\ [][NextTruck]_vars

----------------------------------------------------------------------------
(* The tick loop left to itself for days on end, scheduled fairly, over a blob
   in which truck-1 is on the last leg of its way to stadium-1 *)

\* the run starts at minute start_time with the fleet `trucks` stored
InitDay(start_time, trucks) ==
    /\ restocking_cost \in RestockingCosts
    /\ scope = Scope(Endless, 0, {}, PipelineLevels)
    /\ \E truck \in trucks :
         store = [current_time |-> start_time,
                  trucks |-> [DefaultTrucks(restocking_cost) EXCEPT !["truck-1"] = truck]]
    /\ queue = <<>>
    /\ tick_pc = "load"
    /\ state = store
    /\ loaded_time = start_time
    /\ pending = 0
    /\ log = LogEntry("started", 0, 0, <<>>, NoResolution)
    /\ ticks = 0
    /\ agent_pc = "sleep"
    /\ agent_time = 0
    /\ iteration_count = 0
    /\ enqueued = 0
    /\ exists = TRUE
    /\ published = <<>>
    /\ taken = <<>>
    /\ settled = {}
    /\ built = NoConstruction
    /\ is_peak = NoPeakCall

\* `while True: ... finally: await asyncio.sleep(1)`: the tick loop is a task of
\* its own that the event loop resumes after every await
TickFairness == WF_vars(TickLoad \/ TickLength \/ TickDequeue \/ TickResolve)

\* truck-1, dispatched from downtown-1 to stadium-1 some half an hour ago, is
\* due in a minute or two, sold out or with stock
StadiumTrucks ==
    {[Truck("downtown-1", c[1], c[2], cost) EXCEPT
         !.status = MOVING, !.destination_zone = <<"stadium-1">>,
         !.arrival_time = StadiumStart + left] :
       c \in CapacityCases, left \in 1..TruckTicks, cost \in RestockingCosts}

InitStadium == InitDay(StadiumStart, StadiumTrucks)

SpecStadium == InitStadium /\ [][NextTruck]_vars /\ TickFairness

----------------------------------------------------------------------------
(* The two loops while truck-1 is sent to university-1 shortly before midnight,
   the tick loop scheduled fairly *)

ArrivalCalls == {<<DISPATCH, "truck-1", <<"university-1">> >>}

InitArrival ==
    InitAt(DayMinutes - ArrivalLead,
           Scope(ArrivalTicks, ArrivalMsgs, ArrivalCalls, MidnightLevels))

SpecArrival == InitArrival /\ [][Next]_vars /\ TickFairness

----------------------------------------------------------------------------
(* Zone.is_peak_hour on its own *)

\* the end points of the windows explored: midnight, 01:00, 22:00 and 23:59
\* (university-1's first window is 22:00 to 01:00)
WindowEnds == {0, 60, 1320, 1439}

\* the minutes asked about: on, next to and between the end points
PeakMinutes == {0, 30, 60, 61, 700, 1319, 1320, 1439}

Windows == WindowEnds \X WindowEnds

\* peak_hours: list[tuple[int, int]], up to MaxWindows windows
PeakHours == UNION {[1..n -> Windows] : n \in 0..MaxWindows}

\* for start, end in self.peak_hours: if start <= current_time <= end: return True
is_peak_hour(hours, current_time) ==
    \E n \in 1..Len(hours) : hours[n][1] <= current_time /\ current_time <= hours[n][2]

InitPeak ==
    /\ InitLoops(0, Scope(0, 0, {}, {}))
    /\ built = NoConstruction
    /\ \E hours \in PeakHours, t \in PeakMinutes :
         is_peak = [peak_hours |-> hours, current_time |-> t, returned |-> <<>>]

\* is_peak = z.is_peak_hour(state.current_time)
IsPeakHour ==
    /\ is_peak.returned = <<>>
    /\ is_peak' = [is_peak EXCEPT
                      !.returned = <<is_peak_hour(is_peak.peak_hours, is_peak.current_time)>>]
    /\ UNCHANGED <<store, queue, tick_pc, state, loaded_time, pending, log, ticks,
                   restocking_cost, scope, agent_pc, agent_time, iteration_count,
                   enqueued, exists, published, taken, settled, built>>

NextPeak == IsPeakHour

SpecPeak == InitPeak /\ [][NextPeak]_vars

----------------------------------------------------------------------------
(* Properties *)

\* a step of TickDequeue: the only step that shortens the queue
DequeueStep == Len(queue') < Len(queue)

\* the message a dequeue step removes
Removed == CHOOSE m \in {queue[n] : n \in 1..Len(queue)} :
               m \notin {queue'[n] : n \in 1..Len(queue')}

\* the removed message is passed to process_action (its stamp is not 0)
Passed == Removed.current_time # 0

\* a step of TickResolve that reaches client.set
PersistStep == tick_pc = "drain" /\ pending = 0 /\ log'.event = "persisted"

\* C1: every truck's inventory stays within 0..max_inventory, in the stored
\* state and in the state a tick is working on, whatever is served or restocked
C1_InventoryWithinCapacity ==
    \A t \in TruckSet :
        /\ 0 <= store.trucks[t].inventory
        /\ store.trucks[t].inventory <= store.trucks[t].max_inventory
        /\ 0 <= state.trucks[t].inventory
        /\ state.trucks[t].inventory <= state.trucks[t].max_inventory

\* a restock completion has filled truck-1 (150 of 200 at the start) to its capacity
C1_Witness ==
    /\ log.event = "persisted"
    /\ log.resolved["truck-1"] = "restocked"
    /\ store.trucks["truck-1"].inventory = store.trucks["truck-1"].max_inventory

\* C2: a message passed to process_action whose stamp differs from the tick's
\* current_time by more than 5 changes nothing; one that differs by 5 or less is
\* not discarded as stale (a restock for a known truck then takes effect)
C2_StaleDiscarded ==
    [][(DequeueStep /\ Passed) =>
          IF Abs(state.current_time - Removed.current_time) > 5
            THEN state' = state /\ store' = store /\ log'.event = "stale"
            ELSE /\ log'.event # "stale"
                 /\ (Removed.action = RESTOCK /\ Removed.truck_id \in TruckSet)
                       => state'.trucks[Removed.truck_id].status = RESTOCKING]_vars

\* a message stamped 6 minutes before the tick that dequeued it was discarded
C2_Witness ==
    /\ log.event = "stale"
    /\ state.current_time - log.action_time = 6

\* the cheapest route by at most n roads (Bellman-Ford), from the zones' costs
RoadCost(i, j) ==
    IF i = j THEN 0 ELSE IF j \in DOMAIN costs[i] THEN costs[i][j] ELSE Infinity

SetMin(S) == CHOOSE x \in S : \A y \in S : x <= y

CheapestWithin[n \in 0..Len(zone_ids)] ==
    [i \in ZoneSet |-> [j \in ZoneSet |->
        IF n = 0 THEN (IF i = j THEN 0 ELSE Infinity)
        ELSE SetMin({CheapestWithin[n - 1][i][k] + RoadCost(k, j) : k \in ZoneSet})]]

CheapestRoute == CheapestWithin[Len(zone_ids) - 1]

\* C3: a dispatch for a known truck and a known zone, within the tolerance, sets
\* status MOVING, the destination and arrival_time = the tick's current_time +
\* the shortest travel time from current_zone, and nothing else
C3_DispatchMoves ==
    [][(/\ DequeueStep
        /\ Passed
        /\ Abs(state.current_time - Removed.current_time) <= 5
        /\ Removed.action = DISPATCH
        /\ Removed.truck_id \in TruckSet
        /\ Removed.destination_zone[1] \in ZoneSet) =>
          LET id == Removed.truck_id
              before == state.trucks[id]
              after == state'.trucks[id]
          IN /\ after.status = MOVING
             /\ after.destination_zone = Removed.destination_zone
             /\ after.arrival_time = state.current_time
                   + CheapestRoute[before.current_zone][Removed.destination_zone[1]]
             /\ after = [before EXCEPT !.status = after.status,
                                       !.destination_zone = after.destination_zone,
                                       !.arrival_time = after.arrival_time]
             /\ state'.current_time = state.current_time
             /\ \A t \in TruckSet \ {id} : state'.trucks[t] = state.trucks[t]]_vars

\* truck-1 was dispatched to university-1 by a message stamped before the tick
\* that applied it: it arrives 10 minutes after that tick
C3_Witness ==
    /\ log.event = "dispatched"
    /\ log.action_time < state.current_time
    /\ state.trucks["truck-1"].status = MOVING
    /\ state.trucks["truck-1"].destination_zone = <<"university-1">>
    /\ state.trucks["truck-1"].arrival_time = state.current_time + 10

\* the fleet as State() configures it
InitialZone == [t \in TruckSet |->
    CASE t = "truck-1" -> "downtown-1"
      [] t = "truck-2" -> "university-1"
      [] t = "truck-3" -> "residential-1"]

InitialInventory == [t \in TruckSet |->
    CASE t = "truck-1" -> 150 [] t = "truck-2" -> 70 [] t = "truck-3" -> 50]

\* C4: the tick that loads current_time 1439 works, before anything else, on a
\* fresh state: current_time 0 and every truck as initially configured
C4_DayRollover ==
    (tick_pc = "length" /\ loaded_time + 1 = 1440) =>
        /\ state.current_time = 0
        /\ \A t \in TruckSet :
              /\ state.trucks[t].total_revenue = 0
              /\ state.trucks[t].inventory = InitialInventory[t]
              /\ state.trucks[t].status = IDLE
              /\ state.trucks[t].current_zone = InitialZone[t]
              /\ state.trucks[t].destination_zone = <<>>
              /\ state.trucks[t].arrival_time = 0
              /\ state.trucks[t].restocking_finish_time = <<>>
              /\ state.trucks[t].sales_accummulator = 0

\* the day ends on a stored state in which truck-1 has sold and earned
C4_Witness ==
    /\ tick_pc = "length"
    /\ loaded_time + 1 = 1440
    /\ store.trucks["truck-1"].total_revenue > 0
    /\ store.trucks["truck-1"].inventory < 150
    /\ store.trucks["truck-1"].status = SERVING

\* C5: the stored current_time is always in 0..1439, and a tick that persists
\* writes the loaded current_time plus 1, or 0 when that is 1440
C5_StoredTime ==
    [][/\ store'.current_time \in 0..1439
       /\ store' # store => PersistStep
       /\ PersistStep =>
            store'.current_time =
                IF loaded_time + 1 = 1440 THEN 0 ELSE loaded_time + 1]_vars

\* the tick that loaded 1439 has persisted current_time 0
C5_Witness ==
    /\ log.event = "persisted"
    /\ loaded_time = 1439
    /\ store.current_time = 0

\* C6 (as claimed): start_serving for a known IDLE truck, within the tolerance,
\* makes the truck SERVING in the tick that applies it
C6_StartServing ==
    [][(/\ DequeueStep
        /\ Passed
        /\ Abs(state.current_time - Removed.current_time) <= 5
        /\ Removed.action = START
        /\ Removed.truck_id \in TruckSet
        /\ state.trucks[Removed.truck_id].status = IDLE) =>
          state'.trucks[Removed.truck_id].status = SERVING]_vars

\* a restock is due for the truck in this tick
RestockDue(truck, now) ==
    /\ truck.status = RESTOCKING
    /\ truck.restocking_finish_time # <<>>
    /\ now >= truck.restocking_finish_time[1]

\* C7: a restock completing for a truck whose total_revenue is below the fixed
\* cost restocks nothing and leaves total_revenue and inventory as they were
C7_UnaffordableRestock ==
    [][PersistStep =>
         \A t \in TruckSet :
            (/\ RestockDue(state.trucks[t], state.current_time)
             /\ state.trucks[t].total_revenue < state.trucks[t].restocking_cost.fixed_cost)
            => /\ log'.resolved[t] = "restock_failed"
               /\ store'.trucks[t].total_revenue = state.trucks[t].total_revenue
               /\ store'.trucks[t].inventory = state.trucks[t].inventory]_vars

\* truck-1 completed a restock with some revenue, but less than the fixed cost
C7_Witness ==
    /\ log.event = "persisted"
    /\ log.resolved["truck-1"] = "restock_failed"
    /\ store.trucks["truck-1"].total_revenue > 0
    /\ store.trucks["truck-1"].total_revenue
          < store.trucks["truck-1"].restocking_cost.fixed_cost

\* C8: a message naming an unknown truck changes nothing and raises nothing:
\* the drain goes on with the next message of the batch
C8_UnknownTruckDropped ==
    [][(DequeueStep /\ Passed /\ Removed.truck_id \notin TruckSet) =>
          /\ state' = state
          /\ store' = store
          /\ log'.event # "error"
          /\ tick_pc' = "drain"
          /\ pending' = pending - 1]_vars

\* a tick dropped a message for an unknown truck, then applied the restock that
\* followed it in the batch, and persisted
C8_Witness ==
    /\ log.event = "persisted"
    /\ log.batch = <<"truck_not_found", "restocking_started">>
    /\ store.trucks["truck-1"].status = RESTOCKING

\* C9 (as claimed): a dispatch to an unknown zone, for a known truck and within
\* the tolerance, is dropped: the state is unchanged and the drain goes on
C9_UnknownZoneDropped ==
    [][(/\ DequeueStep
        /\ Passed
        /\ Abs(state.current_time - Removed.current_time) <= 5
        /\ Removed.action = DISPATCH
        /\ Removed.truck_id \in TruckSet
        /\ Removed.destination_zone[1] \notin ZoneSet) =>
          /\ state' = state
          /\ log'.event # "error"
          /\ tick_pc' = "drain"
          /\ pending' = pending - 1]_vars

\* C10: the message a dequeue removes is the oldest in the queue (the lowest
\* enqueue number), it is the one the tick handles, and it is what peek showed
C10_FIFO ==
    [][DequeueStep =>
          /\ \A n \in 1..Len(queue) : Removed.seq <= queue[n].seq
          /\ \A n \in 1..Len(queue') : Removed.seq < queue'[n].seq
          /\ log'.seq = Removed.seq
          /\ peek(queue) = <<Removed>>]_vars

\* two messages were in one batch and the first enqueued was handled first
C10_Witness ==
    /\ tick_pc = "drain"
    /\ pending = 1
    /\ log.seq = 1
    /\ Len(queue) = 1
    /\ queue[1].seq = 2

\* the messages (by seq) in the queue
QueuedSeqs == {queue[n].seq : n \in 1..Len(queue)}

\* C11 (as claimed): between ticks, every message enqueued so far is still in
\* the queue or was dequeued by a tick that persisted its state: none is
\* removed by a tick whose outcome is lost
C11_AtLeastOnce ==
    tick_pc = "load" => \A s \in 1..enqueued : s \in QueuedSeqs \/ s \in settled

\* a step of the tick loop that ends in its except branch
FailStep == log'.event = "error" /\ (ticks' # ticks \/ tick_pc' # tick_pc)

\* C12: a tick that raises leaves the blob as it was before the tick (the blob
\* is only written by the last step of a tick that does not raise), the loop
\* goes on to the next tick, and a tick starts from the blob in the store
C12_FailedTickKeepsBlob ==
    [][/\ FailStep => /\ store' = store
                      /\ store.current_time = loaded_time
                      /\ tick_pc' = "load"
       /\ store' # store => PersistStep
       /\ (tick_pc = "load" /\ tick_pc' = "length") =>
             /\ loaded_time' = store.current_time
             /\ state'.trucks = store.trucks
             /\ state'.current_time = store.current_time + 1]_vars

\* a tick applied a restock in memory, then raised on the next message of the
\* batch: the blob, written by an earlier tick, still has truck-1 IDLE
C12_Witness ==
    /\ log.event = "error"
    /\ tick_pc = "load"
    /\ log.batch = <<"restocking_started", "KeyError">>
    /\ store.current_time > 0
    /\ store.trucks["truck-1"].status = IDLE

\* C13 (as claimed): the step of a tick that persists its state also
\* publishes one notification carrying the new current_time
C13_TickPublished ==
    [][PersistStep => published' = Append(published, store'.current_time)]_vars

\* C14 (as claimed): a tick that starts while the blob is absent puts a fresh
\* default State in the store and does not fail
C14_AbsentBlobInitialized ==
    [][(tick_pc = "load" /\ ticks' = ticks + 1 /\ ~exists) =>
          /\ exists'
          /\ store' = DefaultState(restocking_cost)
          /\ log'.event # "error"]_vars

\* C15: a cycle that starts while the queue is not empty goes back to sleep: it
\* sends no request and enqueues nothing; requests and enqueues only happen in
\* a cycle that went on from a start that saw the queue empty
C15_SkipWhilePending ==
    [][/\ (agent_pc = "sleep" /\ agent_pc' # "sleep") =>
             (queue_length(queue) = 0 /\ agent_pc' = "snapshot")
       /\ agent_pc = "sleep" =>
             (enqueued' = enqueued /\ iteration_count' = iteration_count
              /\ (queue' = queue \/ DequeueStep))
       /\ (enqueued' # enqueued \/ iteration_count' > iteration_count) =>
             agent_pc \in {"chat", "tools"}
       /\ (agent_pc' \in {"chat", "tools"} /\ agent_pc' # agent_pc) =>
             agent_pc \in {"snapshot", "chat", "tools"}]_vars

\* the decision loop is between cycles, may start another one, and a message
\* of an earlier cycle is still pending
C15_Witness ==
    /\ agent_pc = "sleep"
    /\ enqueued > 0
    /\ enqueued < scope.max_msgs
    /\ queue_length(queue) > 0

\* C16: a cycle sends at most 10 requests (each request counts one), and the
\* cycle that has sent 10 ends without touching the queue
C16_IterationCap ==
    [][/\ iteration_count' <= 10
       /\ (agent_pc = "chat" /\ agent_pc' = "tools") =>
             iteration_count' = iteration_count + 1
       /\ iteration_count' # iteration_count =>
             (iteration_count' = iteration_count + 1 \/ iteration_count' = 0)
       /\ (agent_pc = "chat" /\ iteration_count >= 10 /\ agent_pc' # agent_pc) =>
             (agent_pc' = "sleep" /\ queue' = queue /\ enqueued' = enqueued)]_vars

\* the tenth answer of a cycle carried tool calls too, and the message the
\* cycle enqueued is in the queue
C16_Witness ==
    /\ agent_pc = "chat"
    /\ iteration_count = 10
    /\ enqueued = 1
    /\ QueuedSeqs = {1}

C18_DestinationIffMoving ==
    \A t \in TruckSet :
        (store.trucks[t].destination_zone # <<>>) <=> (store.trucks[t].status = MOVING)

\* C19 (as claimed): in every stored state, a truck has a
\* restocking_finish_time if and only if its status is RESTOCKING
C19_FinishTimeIffRestocking ==
    \A t \in TruckSet :
        (store.trucks[t].restocking_finish_time # <<>>)
            <=> (store.trucks[t].status = RESTOCKING)

\* C20 (as claimed): the length read fixes the number of dequeue attempts of
\* the tick: the drain ends only when all of them were made, and a message
\* enqueued meanwhile goes to the head of the queue without adding an attempt
C20_BatchSnapshot ==
    [][/\ (tick_pc = "length" /\ tick_pc' = "drain") => pending' = Len(queue)
       /\ (tick_pc = "drain" /\ tick_pc' = "load") =>
             (pending = 0 \/ (DequeueStep /\ pending = 1))
       /\ DequeueStep => pending > 0
       /\ enqueued' # enqueued =>
             /\ pending' = pending
             /\ Len(queue') = Len(queue) + 1
             /\ queue'[1].seq = enqueued'
             /\ \A n \in 1..Len(queue) : queue'[n + 1] = queue[n]]_vars

\* C21 (as claimed): a message enters the queue with the current_time the
\* store holds at the moment of the enqueue
C21_StampIsEnqueueTime ==
    [][enqueued' # enqueued => queue'[1].current_time = store.current_time]_vars

\* the units a truck can buy: the most that fit in its free capacity and that
\* its total_revenue pays for on top of the fixed cost, 0 when none does
AffordableUnits(truck) ==
    {u \in 0..Max(0, truck.max_inventory - truck.inventory) :
        truck.restocking_cost.fixed_cost + truck.restocking_cost.price_per_unit * u
            <= truck.total_revenue}

RestockUnits(truck) ==
    IF AffordableUnits(truck) = {} THEN 0
    ELSE CHOOSE u \in AffordableUnits(truck) : \A v \in AffordableUnits(truck) : v <= u

\* C22 (as claimed): a completed restock adds the units to the inventory and
\* charges fixed_cost + price_per_unit * units whenever total_revenue covers
\* the fixed cost, also when the units are 0
C22_RestockCharged ==
    [][PersistStep =>
         \A t \in TruckSet :
            RestockDue(state.trucks[t], state.current_time) =>
               LET truck == state.trucks[t]
                   units == RestockUnits(truck)
               IN /\ store'.trucks[t].inventory = truck.inventory + units
                  /\ store'.trucks[t].total_revenue =
                        IF truck.total_revenue < truck.restocking_cost.fixed_cost
                          THEN truck.total_revenue
                          ELSE truck.total_revenue
                                 - (truck.restocking_cost.fixed_cost
                                    + truck.restocking_cost.price_per_unit * units)]_vars

\* C22 (amended): a completed restock adds the units to the inventory; it
\* charges fixed_cost + price_per_unit * units when units > 0 and nothing when
\* units is 0
C22_RestockChargedWhenBought ==
    [][PersistStep =>
         \A t \in TruckSet :
            RestockDue(state.trucks[t], state.current_time) =>
               LET truck == state.trucks[t]
                   units == RestockUnits(truck)
               IN /\ store'.trucks[t].inventory = truck.inventory + units
                  /\ store'.trucks[t].total_revenue =
                        IF units > 0
                          THEN truck.total_revenue
                                 - (truck.restocking_cost.fixed_cost
                                    + truck.restocking_cost.price_per_unit * units)
                          ELSE truck.total_revenue
                  /\ log'.resolved[t] = IF units > 0 THEN "restocked" ELSE "restock_failed"]_vars

\* a restock completed without a unit for a truck that has free capacity and
\* covers the fixed cost, but not one unit more: nothing was charged
C22_Witness ==
    /\ log.event = "persisted"
    /\ log.resolved["truck-1"] = "restock_failed"
    /\ store.trucks["truck-1"].inventory < store.trucks["truck-1"].max_inventory
    /\ store.trucks["truck-1"].restocking_cost.fixed_cost > 0
    /\ store.trucks["truck-1"].total_revenue
          >= store.trucks["truck-1"].restocking_cost.fixed_cost

\* whole units in an accumulator kept in halves
WholeUnits(halves) == CHOOSE n \in 0..halves : 2 * n <= halves /\ halves < 2 * n + 2

\* clamp(100 * depletion_rate, 50, 200), the depletion rate in halves
ClampedPrice(halves) ==
    IF 50 * halves < 50 THEN 50 ELSE IF 50 * halves > 200 THEN 200 ELSE 50 * halves

\* C23: a tick adds the depletion rate of its fresh demand to the accumulator
\* of a SERVING truck with inventory, sells min(floor(accumulator), inventory)
\* units, lowers the inventory by them and credits clamp(100 * rate, 50, 200)
\* a unit
C23_SalesOfOneTick ==
    [][PersistStep =>
         \A t \in TruckSet :
            (state.trucks[t].status = SERVING /\ state.trucks[t].inventory > 0) =>
               \E rate \in scope.levels :
                  LET truck == state.trucks[t]
                      accumulated == truck.sales_accummulator + rate
                      sold == IF WholeUnits(accumulated) <= truck.inventory
                                THEN WholeUnits(accumulated) ELSE truck.inventory
                  IN /\ store'.trucks[t].sales_accummulator = accumulated - 2 * sold
                     /\ store'.trucks[t].inventory = truck.inventory - sold
                     /\ store'.trucks[t].total_revenue =
                           truck.total_revenue + ClampedPrice(rate) * sold
                     /\ store'.trucks[t].status = SERVING]_vars

\* the spec's example: inventory 150, no revenue, demand 50 at base_demand 1.0:
\* after one tick 50 units are sold, inventory 100 and revenue 10000
C23_Witness ==
    /\ ticks = 1
    /\ log.event = "persisted"
    /\ log.resolved["truck-1"] = "sold"
    /\ store.trucks["truck-1"].current_zone = "downtown-1"
    /\ store.trucks["truck-1"].inventory = 100
    /\ store.trucks["truck-1"].sales_accummulator = 0
    /\ store.trucks["truck-1"].total_revenue = 10000

\* C24 (as claimed): in every stored state each truck's sales accumulator is a
\* fraction of a unit: at least 0 and less than 1 (two halves)
C24_AccumulatorBelowOne ==
    \A t \in TruckSet :
        /\ 0 <= store.trucks[t].sales_accummulator
        /\ store.trucks[t].sales_accummulator < 2

C27_OneBranchPerTick ==
    [][PersistStep =>
         \A t \in TruckSet :
            LET before == state.trucks[t]
                after == store'.trucks[t]
            IN /\ log'.resolved[t] \in {"restocked", "restock_failed"} =>
                    /\ RestockDue(before, state.current_time)
                    /\ after.sales_accummulator = before.sales_accummulator
                    /\ after.inventory = before.inventory + RestockUnits(before)
                    /\ after.total_revenue = before.total_revenue
                          - (IF RestockUnits(before) > 0
                               THEN before.restocking_cost.fixed_cost
                                    + before.restocking_cost.price_per_unit * RestockUnits(before)
                               ELSE 0)
               /\ log'.resolved[t] = "arrived" =>
                    /\ before.status = MOVING
                    /\ after.sales_accummulator = before.sales_accummulator
                    /\ after.inventory = before.inventory
                    /\ after.total_revenue = before.total_revenue
               /\ log'.resolved[t] \in {"sold", "accumulated", "sold_out"} =>
                    /\ before.status = SERVING
                    /\ ~RestockDue(before, state.current_time)]_vars

\* truck-1 has completed a restock that bought units: it is SERVING with stock
\* to sell and with the accumulator it had, so a sale in the same tick would
\* have shown
C27_Witness ==
    /\ log.event = "persisted"
    /\ log.resolved["truck-1"] = "restocked"
    /\ store.trucks["truck-1"].status = SERVING
    /\ store.trucks["truck-1"].inventory > 0
    /\ store.trucks["truck-1"].sales_accummulator = 0

SetMax(S) == CHOOSE x \in S : \A y \in S : y <= x

\* the status that the action logged as `event` gives its truck
StatusSetBy(event) == IF event = "dispatched" THEN MOVING ELSE RESTOCKING

\* the positions of a batch at which an action gave its truck a status
Setters(batch) ==
    {n \in 1..Len(batch) : batch[n] \in {"dispatched", "restocking_started"}}

AgentStep ==
    \/ agent_pc' # agent_pc
    \/ agent_time' # agent_time
    \/ iteration_count' # iteration_count
    \/ enqueued' # enqueued

\* C29: no step of the decision loop or of its tools writes the stored state:
\* such a step leaves the blob, its presence and the tick notifications alone
\* and at most puts one message at the head of the queue, and the blob changes
\* only in the step of the tick loop that reaches client.set
C29_DecisionLoopWritesNoState ==
    [][/\ AgentStep =>
            /\ store' = store
            /\ exists' = exists
            /\ published' = published
            /\ \/ queue' = queue
               \/ /\ Len(queue') = Len(queue) + 1
                  /\ SubSeq(queue', 2, Len(queue')) = queue
       /\ store' # store => PersistStep /\ ~AgentStep]_vars

\* the decision loop took its snapshot at minute 1 and enqueued after the tick
\* of minute 2 was persisted: the stored state is the tick's
C29_Witness ==
    /\ enqueued = 1
    /\ Len(queue) = 1
    /\ queue[1].current_time = 1
    /\ store.current_time = 2
    /\ tick_pc = "load"

\* minute t lies inside the window, which wraps past midnight when its end
\* is before its start
InsideWindow(window, t) ==
    IF window[2] < window[1]
      THEN (window[1] <= t /\ t <= DayMinutes - 1) \/ (0 <= t /\ t <= window[2])
      ELSE window[1] <= t /\ t <= window[2]

\* C30: is_peak_hour returns true exactly when the minute lies inside one of
\* the zone's peak windows, a window whose end is before its start covering
\* the minutes from its start to 1439 and from 0 to its end
C30_PeakHourWithWraparound ==
    is_peak.returned # <<>> =>
        (is_peak.returned[1] <=>
            \E n \in 1..Len(is_peak.peak_hours) :
                InsideWindow(is_peak.peak_hours[n], is_peak.current_time))

\* C31: no truck's total_revenue is ever negative, in the stored state and in
\* the state a tick is working on: a tick never lowers the total_revenue of a
\* SERVING truck, and a restock completion takes at most what the truck has
C31_RevenueNeverNegative ==
    /\ [](\A t \in TruckSet : /\ store.trucks[t].total_revenue >= 0
                              /\ state.trucks[t].total_revenue >= 0)
    /\ [][PersistStep =>
            \A t \in TruckSet :
               /\ state.trucks[t].status = SERVING =>
                     store'.trucks[t].total_revenue >= state.trucks[t].total_revenue
               /\ RestockDue(state.trucks[t], state.current_time) =>
                     state.trucks[t].total_revenue - store'.trucks[t].total_revenue
                        <= state.trucks[t].total_revenue]_vars

\* truck-1 has completed a restock that took all it had
C31_Witness ==
    /\ log.event = "persisted"
    /\ log.resolved["truck-1"] = "restocked"
    /\ store.trucks["truck-1"].total_revenue = 0
    /\ store.trucks["truck-1"].inventory > 0
    /\ store.trucks["truck-1"].restocking_cost.fixed_cost > 0

\* C32: the tick loop always makes progress: every tick that has loaded the
\* stored state leads to a tick that persists a state with the advanced
\* current_time, also with a truck SERVING in stadium-1
C32_TickProgress == (tick_pc = "length") ~> (log.event = "persisted")

\* C33: a message whose current_time stamp is 0 is dequeued and skipped: it is
\* not passed to process_action, the tick's state is as it was, nothing is
\* raised and the drain goes on, whatever the tick's current_time is
C33_StampZeroSkipped ==
    [][(DequeueStep /\ Removed.current_time = 0) =>
          /\ log'.event = "no_action_time"
          /\ state' = state
          /\ store' = store
          /\ pending' = pending - 1
          /\ tick_pc' = tick_pc]_vars

\* the first message, enqueued from the snapshot of minute 0, was skipped by the
\* tick of minute 1, within the tolerance, and truck-1 is as it was
C33_Witness ==
    /\ log.event = "no_action_time"
    /\ log.seq = 1
    /\ state.current_time = 1
    /\ state.trucks = DefaultTrucks(restocking_cost)

\* C34: a message passed to process_action is discarded as stale exactly when
\* the plain difference between the tick's minute and its stamp is above 5: a
\* message stamped in the last minutes of the day and dequeued after the
\* rollover is discarded and leaves the tick's state as it was
C34_StalenessNotCircular ==
    [][(DequeueStep /\ Passed) =>
          /\ log'.event = "stale"
                <=> Abs(state.current_time - Removed.current_time) > 5
          /\ (Removed.current_time >= DayMinutes - 5 /\ state.current_time <= 4)
                => /\ log'.event = "stale"
                   /\ state' = state
                   /\ tick_pc' = tick_pc]_vars

\* a message stamped 23:59 was discarded as stale by the tick of 00:00, one
\* minute later
C34_Witness ==
    /\ log.event = "stale"
    /\ log.action_time = DayMinutes - 1
    /\ state.current_time = 0

\* C35: the messages in the queue are always those of one decision cycle and
\* carry one stamp: a cycle goes past its queue check only when the queue is
\* empty, and every message it enqueues meets in the queue only messages with
\* the stamp of its own snapshot
C35_OneCycleInQueue ==
    /\ [](\A i, j \in 1..Len(queue) : queue[i].current_time = queue[j].current_time)
    /\ [][/\ (agent_pc = "sleep" /\ agent_pc' # "sleep") => queue = <<>>
          /\ enqueued' # enqueued =>
                \A n \in 1..Len(queue') : queue'[n].current_time = agent_time]_vars

\* two messages of one cycle are queued with the stamp of its snapshot while
\* the tick loop has moved the stored state on
C35_Witness ==
    /\ Len(queue) = 2
    /\ queue[1].current_time = queue[2].current_time
    /\ queue[1].current_time >= 1
    /\ store.current_time > queue[1].current_time

====
